---- MODULE Spec2Model ----
(***************************************************************************)
(* Model of the document assistant: the retrieval-augmented answering      *)
(* pipeline (core/rag_chain.py), the context formatter                     *)
(* (core/document_processor.py) and the two similarity stores              *)
(* (core/vector_store.py).                                                 *)
(*                                                                         *)
(* Text is a sequence of tokens.  The escalation sentinel                  *)
(* "[EXTERNAL_SEARCH_NEEDED]" is the two tokens "[EXTERNAL_" and           *)
(* "SEARCH_NEEDED]" next to each other, so that a text can hold a whole    *)
(* sentinel, a part of one, or two parts that only meet once something     *)
(* between them is removed.                                                *)
(***************************************************************************)
EXTENDS Integers, Sequences, FiniteSets, TLC

VARIABLES
    pc,                 \* position inside generate_enhanced_answer
    user_query,         \* the question handed to generate_enhanced_answer
    external_search_enabled,
    external_search_available,
    tavily_api_key,     \* whether TAVILY_API_KEY is set in the environment
    docs,               \* chunks returned by retriever.invoke
    document_context,   \* context string built by format_docs_with_metadata
    sources,            \* local variable sources of generate_enhanced_answer
    initial_response,   \* first model output
    external_results,   \* output of lookup
    final_response,     \* second model output
    calls,              \* external capabilities invoked so far, in order
    ui,                 \* streamlit messages emitted (st.info / st.error)
    result,             \* what the caller receives
    chroma,             \* chunks held by ChromaVectorStore.vector_db
    inmemory,           \* chunks held by InMemoryVectorStoreWrapper.vector_db
    adds,               \* number of add_documents calls made
    probe,              \* document_exists call made since the last add, if any
    last_op,            \* the last call made on the two stores and how it ended
    retrieved,          \* the last retrieval made on the two stores, if any
    inmemory_app_store, \* st.session_state.vector_store of app_inmemory.py
    deepseek_store,     \* st.session_state.vector_store of app_deepseek.py
    cloud_store,        \* st.session_state.vector_store of streamlit_cloud.py
    processed_files,    \* st.session_state.processed_files of streamlit_cloud.py
    uploads,            \* number of runs of an upload flow so far
    upload,             \* the last run of an upload flow and how it ended
    chunked,            \* the last chunk_documents call and what it returned
    cited,              \* the last citation aggregation and what it returned
    inmemory_chat,      \* st.session_state.chat_history of app_inmemory.py
    deepseek_chat,      \* st.session_state.chat_history of app_deepseek.py
    cloud_chat,         \* st.session_state.chat_history of streamlit_cloud.py
    asked,              \* the questions entered so far and what the pipeline returned
    shared_store,       \* one store two ingestion requests run against
    ingest              \* each ingestion request: its position in the upload
                        \* flow, its file, what document_exists returned to it

pipelineVars == <<pc, user_query, external_search_enabled, external_search_available,
                  tavily_api_key, docs,
                  document_context, sources, initial_response, external_results,
                  final_response, calls, ui, result>>
storeVars == <<chroma, inmemory, adds, probe, last_op, retrieved>>
appVars == <<inmemory_app_store, deepseek_store, cloud_store, processed_files,
             uploads, upload>>
docVars == <<chunked, cited>>
chatVars == <<inmemory_chat, deepseek_chat, cloud_chat, asked>>
raceVars == <<shared_store, ingest>>
vars == <<pipelineVars, storeVars, appVars, docVars, chatVars, raceVars>>

----------------------------------------------------------------------------
(* Bounds *)

\* longest first model output, in tokens
MaxFirstLen == 6
\* add_documents calls in one run of the store
MaxAdds == 2
\* runs of an upload flow in one session of the applications
MaxUploads == 2
\* pages of one loaded file, and chunks the splitter cuts one page into
MaxPages == 3
MaxChunksPerPage == 3
\* records handed to one citation aggregation
MaxSources == 4
\* questions entered in one session of an application
MaxQueries == 2

----------------------------------------------------------------------------
(* Text *)

Char == {"[EXTERNAL_", "SEARCH_NEEDED]", "x", " ", "\n"}

Whitespace == {" ", "\n"}

Sentinel == <<"[EXTERNAL_", "SEARCH_NEEDED]">>

InsufficientInfo == <<"I don't have sufficient information to answer this query.">>

ErrorPrefix == "Error generating response: "

RECURSIVE StringsOfLen(_)
StringsOfLen(n) ==
    IF n = 0 THEN {<<>>}
    ELSE {Append(s, c) : s \in StringsOfLen(n - 1), c \in Char}

RECURSIVE StringsUpTo(_)
StringsUpTo(n) ==
    IF n = 0 THEN {<<>>} ELSE StringsOfLen(n) \cup StringsUpTo(n - 1)

StartsWith(s, p) ==
    /\ Len(s) >= Len(p)
    /\ SubSeq(s, 1, Len(p)) = p

\* Python: p in s
Contains(s, p) ==
    \E i \in 1..(Len(s) - Len(p) + 1) : SubSeq(s, i, i + Len(p) - 1) = p

\* Python: s.replace(old, ""), one left-to-right pass over s
RECURSIVE Remove(_, _)
Remove(s, old) ==
    IF s = <<>> THEN <<>>
    ELSE IF StartsWith(s, old) THEN Remove(SubSeq(s, Len(old) + 1, Len(s)), old)
    ELSE <<Head(s)>> \o Remove(Tail(s), old)

RECURSIVE LStrip(_)
LStrip(s) ==
    IF s # <<>> /\ Head(s) \in Whitespace THEN LStrip(Tail(s)) ELSE s

RECURSIVE RStrip(_)
RStrip(s) ==
    IF s # <<>> /\ s[Len(s)] \in Whitespace
    THEN RStrip(SubSeq(s, 1, Len(s) - 1)) ELSE s

\* Python: s.strip()
Strip(s) == RStrip(LStrip(s))

\* Python: s.split('\n'), a sequence of lines
RECURSIVE Split(_)
Split(s) ==
    IF \A i \in 1..Len(s) : s[i] # "\n" THEN <<s>>
    ELSE LET k == CHOOSE i \in 1..Len(s) :
                      s[i] = "\n" /\ \A j \in 1..(i - 1) : s[j] # "\n"
         IN <<SubSeq(s, 1, k - 1)>> \o Split(SubSeq(s, k + 1, Len(s)))

\* Python: '\n'.join(lines)
RECURSIVE Join(_)
Join(lines) ==
    IF lines = <<>> THEN <<>>
    ELSE IF Len(lines) = 1 THEN lines[1]
    ELSE lines[1] \o <<"\n">> \o Join(Tail(lines))

RECURSIVE StripNonBlank(_)
StripNonBlank(lines) ==
    IF lines = <<>> THEN <<>>
    ELSE IF Strip(Head(lines)) # <<>>
         THEN <<Strip(Head(lines))>> \o StripNonBlank(Tail(lines))
         ELSE StripNonBlank(Tail(lines))

\* '\n'.join(line.strip() for line in s.split('\n') if line.strip())
NormalizeLines(s) == Join(StripNonBlank(Split(s)))

----------------------------------------------------------------------------
(* Retrieved chunks and context formatting (core/document_processor.py) *)

PDF_STORAGE_PATH == <<"document_store/", "pdfs/">>

NumStr(n) == <<"0", "1", "2", "3", "4", "5", "6", "7", "8", "9">>[n + 1]

\* A chunk as load_pdf_documents and chunk_documents leave it: file_name is
\* the uploaded file's name, page the 0-based page of the loader.
MakeChunk(file_name, page, content, index, total) ==
    [page_content |-> content,
     metadata |-> [source |-> PDF_STORAGE_PATH \o file_name,
                   filename |-> file_name,
                   page_number |-> page + 1,
                   chunk_index |-> index,
                   total_chunks |-> total]]

\* A chunk of a file loaded by streamlit_cloud.py (load_pdf_from_upload):
\* the loader's metadata only, no filename and no page_number.
BareChunk == [page_content |-> <<"x">>,
              metadata |-> [source |-> <<"tmp", ".pdf">>, page |-> 0]]

\* What a retriever can hand to the pipeline: nothing, one chunk, chunks of
\* two files, or a chunk without the enriched metadata.
RetrievedDocs ==
    {<<>>,
     <<BareChunk>>,
     <<MakeChunk(<<"a", ".pdf">>, 0, <<"x">>, 0, 2)>>,
     <<MakeChunk(<<"b", ".pdf">>, 2, <<"x", " ", "x">>, 1, 2),
       MakeChunk(<<"a", ".pdf">>, 0, <<"x">>, 0, 2)>>}

RECURSIVE JoinWith(_, _)
JoinWith(parts, sep) ==
    IF parts = <<>> THEN <<>>
    ELSE IF Len(parts) = 1 THEN parts[1]
    ELSE parts[1] \o sep \o JoinWith(Tail(parts), sep)

\* doc.metadata.get(key) is None for a key the metadata does not hold
MetaParts(m) ==
    (IF "filename" \in DOMAIN m /\ m.filename # <<>>
     THEN <<<<"File: ">> \o m.filename>> ELSE <<>>)
    \o (IF "page_number" \in DOMAIN m /\ m.page_number # 0
        THEN <<<<"Page: ", NumStr(m.page_number)>>>> ELSE <<>>)
    \o (IF "chunk_index" \in DOMAIN m
        THEN <<<<"Chunk: ", NumStr(m.chunk_index + 1), "/",
                 IF "total_chunks" \in DOMAIN m THEN NumStr(m.total_chunks) ELSE "?">>>>
        ELSE <<>>)

FormattedChunk(i, doc) ==
    LET chunk_header == <<"--- Source ", NumStr(i), " ---">>
        meta_parts == MetaParts(doc.metadata)
        header == IF meta_parts # <<>>
                  THEN chunk_header \o <<"\n", "[">> \o JoinWith(meta_parts, <<" | ">>) \o <<"]">>
                  ELSE chunk_header
    IN header \o <<"\n", "\n">> \o doc.page_content

\* source_info with a 0-based chunk_number
SourceInfo_ZeroBased(i, doc) ==
    [chunk_number |-> i - 1, content |-> doc.page_content, metadata |-> doc.metadata]

\* lines 171-175; metadata is a copy of the chunk's metadata
SourceInfo(i, doc) ==
    [chunk_number |-> i, content |-> doc.page_content, metadata |-> doc.metadata]

\* format_docs_with_metadata: (context string, per-chunk source list)
format_docs_with_metadata(ds) ==
    [context |-> JoinWith([i \in 1..Len(ds) |-> FormattedChunk(i, ds[i])], <<"\n", "\n">>),
     sources |-> [i \in 1..Len(ds) |-> SourceInfo(i, ds[i])]]

----------------------------------------------------------------------------
(* Answer cleanup of generate_enhanced_answer (core/rag_chain.py) *)

\* lines 150-151: the answer of the second model call
CleanEnhanced(final) == NormalizeLines(Strip(final))

\* lines 160-161: the first-pass answer after a failed escalation
CleanFallback(initial) ==
    LET fallback_response == Strip(Remove(initial, Sentinel))
    IN IF fallback_response # <<>> THEN fallback_response ELSE InsufficientInfo

\* CleanDocumentBased without line 176 (no replacement of an empty answer)
CleanDocumentBased_NoFallback(enabled, initial) ==
    NormalizeLines(IF ~enabled THEN Strip(initial)
                   ELSE Strip(Remove(initial, Sentinel)))

\* lines 168-176: the first-pass answer when there is no escalation
CleanDocumentBased(enabled, initial) ==
    LET stripped == IF ~enabled THEN Strip(initial)
                    ELSE Strip(Remove(initial, Sentinel))
        normalized == NormalizeLines(stripped)
    IN IF normalized # <<>> THEN normalized ELSE InsufficientInfo

\* line 182: f"Error generating response: {str(e)}"
ErrorAnswer(e) == <<ErrorPrefix, e>>

\* ShouldEscalate without line 122 (availability not consulted)
ShouldEscalate_IgnoresAvailable(enabled, initial, available) ==
    enabled /\ Contains(initial, Sentinel)

\* lines 120-122: the escalation condition
ShouldEscalate(enabled, initial, available) ==
    enabled /\ Contains(initial, Sentinel) /\ available

----------------------------------------------------------------------------
(* generate_enhanced_answer, one action per external call and its outcome *)

\* What an external capability is invoked with: the question, and for the
\* model calls the document context and the external context of the prompt.
CallInput(query, context, external) ==
    [user_query |-> query, document_context |-> context, external_context |-> external]

\* enhanced_chain.invoke without the "document_context" entry of its input
EnhancedInput_NoDocumentContext(query, context, external) ==
    CallInput(query, <<>>, external)

\* lines 143-147: the input of enhanced_chain.invoke
EnhancedInput(query, context, external) == CallInput(query, context, external)

\* One invocation of an external capability: what it was given and whether
\* it returned or raised.
Call(fn, ok, input) == [fn |-> fn, ok |-> ok, input |-> input]

NoResult == [answer |-> <<>>, sources |-> <<>>, raised |-> FALSE, via |-> "none"]

\* A return statement that hands back no citations
Return_NoSources(answer, srcs, via) ==
    [answer |-> answer, sources |-> <<>>, raised |-> FALSE, via |-> via]

\* A return statement: the pair handed to the caller, and which return it was.
Return(answer, srcs, via) ==
    [answer |-> answer, sources |-> srcs, raised |-> FALSE, via |-> via]

\* generate_enhanced_answer without the outer try: the exception propagates
OuterExcept_Propagates(e, srcs) ==
    [answer |-> <<>>, sources |-> <<>>, raised |-> TRUE, via |-> "raised"]

\* lines 180-182: the outer except clause
OuterExcept(e, srcs) == Return(ErrorAnswer(e), srcs, "failed")

\* generate_enhanced_answer without the inner try: an escalation failure
\* reaches the outer except clause
InnerExcept_AsError(initial, srcs) == OuterExcept("search error", srcs)

\* lines 156-163: the inner except clause
InnerExcept(initial, srcs) == Return(CleanFallback(initial), srcs, "fallback")

FirstResponses == StringsUpTo(MaxFirstLen)
\* Second model outputs: empty, blank, plain, the sentinel, text with blank
\* and padded lines, text followed by the sentinel.
SecondResponses ==
    {<<>>, <<" ">>, <<"x">>, Sentinel,
     <<"x", " ", "\n", "\n", " ", "x">>,
     <<" ", "x", "\n">> \o Sentinel}
ExternalResults == {<<"x">>}
Queries == {<<"q">>}

PipelineInit ==
    /\ pc = "idle"
    /\ user_query = <<>>
    /\ external_search_enabled = FALSE
    /\ external_search_available = FALSE
    /\ tavily_api_key = FALSE
    /\ docs = <<>>
    /\ document_context = <<>>
    /\ sources = <<>>
    /\ initial_response = <<>>
    /\ external_results = <<>>
    /\ final_response = <<>>
    /\ calls = <<>>
    /\ ui = <<>>
    /\ result = NoResult

\* EXTERNAL_SEARCH_AVAILABLE of the applications: set by whether the import
\* of the lookup agent succeeds; the environment's TAVILY_API_KEY is not read.
ExternalSearchAvailable(import_ok, api_key) == import_ok

\* The application calls generate_enhanced_answer (lines 68-89).
Invoke(query, enabled, import_ok, api_key) ==
    /\ pc = "idle"
    /\ pc' = "retrieve"
    /\ user_query' = query
    /\ external_search_enabled' = enabled
    /\ tavily_api_key' = api_key
    /\ external_search_available' = ExternalSearchAvailable(import_ok, api_key)
    /\ sources' = <<>>
    /\ UNCHANGED <<docs, document_context, initial_response, external_results,
                   final_response, calls, ui, result>>
    /\ UNCHANGED <<storeVars, appVars, docVars, chatVars, raceVars>>

\* lines 94-95: retriever.invoke returns, the context is formatted
RetrieveOk(ds) ==
    /\ pc = "retrieve"
    /\ pc' = "first_pass"
    /\ calls' = Append(calls, Call("retrieve", TRUE, CallInput(user_query, <<>>, <<>>)))
    /\ docs' = ds
    /\ document_context' = format_docs_with_metadata(ds).context
    /\ sources' = format_docs_with_metadata(ds).sources
    /\ UNCHANGED <<user_query, external_search_enabled, external_search_available,
                   tavily_api_key,
                   initial_response, external_results, final_response, ui, result>>
    /\ UNCHANGED <<storeVars, appVars, docVars, chatVars, raceVars>>

\* A retriever failure that is swallowed: the pipeline goes on with no chunks
RetrieveFail_Continues ==
    /\ pc = "retrieve"
    /\ pc' = "first_pass"
    /\ calls' = Append(calls, Call("retrieve", FALSE, CallInput(user_query, <<>>, <<>>)))
    /\ UNCHANGED <<user_query, external_search_enabled, external_search_available,
                   tavily_api_key, docs,
                   document_context, sources, initial_response, external_results,
                   final_response, ui, result>>
    /\ UNCHANGED <<storeVars, appVars, docVars, chatVars, raceVars>>

\* line 94 raises, lines 180-182 handle it
RetrieveFail ==
    /\ pc = "retrieve"
    /\ pc' = "done"
    /\ calls' = Append(calls, Call("retrieve", FALSE, CallInput(user_query, <<>>, <<>>)))
    /\ result' = OuterExcept("retriever error", sources)
    /\ UNCHANGED <<user_query, external_search_enabled, external_search_available,
                   tavily_api_key, docs,
                   document_context, sources, initial_response, external_results,
                   final_response, ui>>
    /\ UNCHANGED <<storeVars, appVars, docVars, chatVars, raceVars>>

\* line 116 returns; lines 119-125 decide, lines 165-178 finalize
FirstPassOk(response) ==
    /\ pc = "first_pass"
    /\ calls' = Append(calls, Call("model", TRUE,
                                 CallInput(user_query, document_context, <<>>)))
    /\ initial_response' = response
    /\ IF ShouldEscalate(external_search_enabled, response, external_search_available)
       THEN /\ pc' = "lookup"
            /\ ui' = Append(ui, "info")
            /\ UNCHANGED result
       ELSE /\ pc' = "done"
            /\ result' = Return(CleanDocumentBased(external_search_enabled, response),
                                sources, "document")
            /\ UNCHANGED ui
    /\ UNCHANGED <<user_query, external_search_enabled, external_search_available,
                   tavily_api_key, docs,
                   document_context, sources, external_results, final_response>>
    /\ UNCHANGED <<storeVars, appVars, docVars, chatVars, raceVars>>

\* line 116 raises, lines 180-182 handle it
FirstPassFail ==
    /\ pc = "first_pass"
    /\ pc' = "done"
    /\ calls' = Append(calls, Call("model", FALSE,
                                 CallInput(user_query, document_context, <<>>)))
    /\ result' = OuterExcept("model error", sources)
    /\ UNCHANGED <<user_query, external_search_enabled, external_search_available,
                   tavily_api_key, docs,
                   document_context, sources, initial_response, external_results,
                   final_response, ui>>
    /\ UNCHANGED <<storeVars, appVars, docVars, chatVars, raceVars>>

\* line 133: lookup returns
LookupOk(found) ==
    /\ pc = "lookup"
    /\ pc' = "second_pass"
    /\ calls' = Append(calls, Call("lookup", TRUE, CallInput(user_query, <<>>, <<>>)))
    /\ external_results' = found
    /\ UNCHANGED <<user_query, external_search_enabled, external_search_available,
                   tavily_api_key, docs,
                   document_context, sources, initial_response, final_response,
                   ui, result>>
    /\ UNCHANGED <<storeVars, appVars, docVars, chatVars, raceVars>>

\* line 133 raises, lines 156-163 handle it
LookupFail ==
    /\ pc = "lookup"
    /\ pc' = "done"
    /\ calls' = Append(calls, Call("lookup", FALSE, CallInput(user_query, <<>>, <<>>)))
    /\ ui' = Append(ui, "error")
    /\ result' = InnerExcept(initial_response, sources)
    /\ UNCHANGED <<user_query, external_search_enabled, external_search_available,
                   tavily_api_key, docs,
                   document_context, sources, initial_response, external_results,
                   final_response>>
    /\ UNCHANGED <<storeVars, appVars, docVars, chatVars, raceVars>>

\* line 143 returns, lines 149-154 clean up and return
SecondPassOk(response) ==
    /\ pc = "second_pass"
    /\ pc' = "done"
    /\ calls' = Append(calls, Call("model", TRUE,
                                 EnhancedInput(user_query, document_context, external_results)))
    /\ final_response' = response
    /\ result' = Return(CleanEnhanced(response), sources, "enhanced")
    /\ UNCHANGED <<user_query, external_search_enabled, external_search_available,
                   tavily_api_key, docs,
                   document_context, sources, initial_response, external_results, ui>>
    /\ UNCHANGED <<storeVars, appVars, docVars, chatVars, raceVars>>

\* line 143 raises, lines 156-163 handle it
SecondPassFail ==
    /\ pc = "second_pass"
    /\ pc' = "done"
    /\ calls' = Append(calls, Call("model", FALSE,
                                 EnhancedInput(user_query, document_context, external_results)))
    /\ ui' = Append(ui, "error")
    /\ result' = InnerExcept(initial_response, sources)
    /\ UNCHANGED <<user_query, external_search_enabled, external_search_available,
                   tavily_api_key, docs,
                   document_context, sources, initial_response, external_results,
                   final_response>>
    /\ UNCHANGED <<storeVars, appVars, docVars, chatVars, raceVars>>

Next ==
    \/ pc = "idle" /\ \E query \in Queries, enabled \in BOOLEAN, import_ok \in BOOLEAN,
                          api_key \in BOOLEAN :
                            Invoke(query, enabled, import_ok, api_key)
    \/ pc = "retrieve" /\ \E ds \in RetrievedDocs : RetrieveOk(ds)
    \/ RetrieveFail
    \/ pc = "first_pass" /\ \E response \in FirstResponses : FirstPassOk(response)
    \/ FirstPassFail
    \/ pc = "lookup" /\ \E found \in ExternalResults : LookupOk(found)
    \/ LookupFail
    \/ pc = "second_pass" /\ \E response \in SecondResponses : SecondPassOk(response)
    \/ SecondPassFail

\* First model outputs of the runs whose termination is checked: one that
\* asks for the external search and one that does not.
LiveFirstResponses == {Sentinel, <<"x">>}

\* line 94: the retriever answers, with chunks or with an exception
RetrieverResponds ==
    \/ \E ds \in RetrievedDocs : RetrieveOk(ds)
    \/ RetrieveFail

\* lines 116 and 143: the language model answers, with a text or with an
\* exception
ModelResponds ==
    \/ \E response \in LiveFirstResponses : FirstPassOk(response)
    \/ FirstPassFail
    \/ \E response \in SecondResponses : SecondPassOk(response)
    \/ SecondPassFail

\* One query whose retriever and language model always respond.  The call
\* of line 133 is made with no timeout: generate_enhanced_answer goes on
\* only when lookup returns or raises, and nothing makes it do either.
NextLive ==
    \/ pc = "idle" /\ \E query \in Queries, enabled \in BOOLEAN, import_ok \in BOOLEAN,
                          api_key \in BOOLEAN :
                            Invoke(query, enabled, import_ok, api_key)
    \/ pc = "retrieve" /\ \E ds \in RetrievedDocs : RetrieveOk(ds)
    \/ RetrieveFail
    \/ pc = "first_pass" /\ \E response \in LiveFirstResponses : FirstPassOk(response)
    \/ FirstPassFail
    \/ pc = "lookup" /\ \E found \in ExternalResults : LookupOk(found)
    \/ LookupFail
    \/ pc = "second_pass" /\ \E response \in SecondResponses : SecondPassOk(response)
    \/ SecondPassFail

----------------------------------------------------------------------------
(* The similarity stores (core/vector_store.py) *)

\* k of the similarity search in InMemoryVectorStoreWrapper.document_exists
ExistsSearchK == 1000

\* Uploaded file names; "b.pdf" is part of the name "ab.pdf".
FileNames == {<<"a", ".pdf">>, <<"b", ".pdf">>, <<"a", "b", ".pdf">>}

\* Number of chunks one file is split into.
BatchSizes == {1, ExistsSearchK}

\* Embedding vectors, and the cosine similarity of two of them.
Vectors == {"u", "v"}

Similarity(q, v) == IF q = v THEN 1 ELSE 0

\* metadata["source"] of the chunks of a file (save_uploaded_file)
SourceOf(file_name) == PDF_STORAGE_PATH \o file_name

\* The chunks one add_documents call indexes: n chunks of one file, embedded
\* to one vector.  A store is the sequence of these runs, in insertion order;
\* a run of n stands for n indexed chunks.
Run(file_name, n, v) == [file_name |-> file_name, n |-> n, vector |-> v]

\* The first k chunks of a sequence of runs.
RECURSIVE TakeChunks(_, _)
TakeChunks(runs, k) ==
    IF runs = <<>> \/ k = 0 THEN <<>>
    ELSE IF Head(runs).n <= k
         THEN <<Head(runs)>> \o TakeChunks(Tail(runs), k - Head(runs).n)
         ELSE <<[Head(runs) EXCEPT !.n = k]>>

\* InMemoryVectorStore.similarity_search(query, k): the k chunks most
\* similar to the query vector q, the most similar first.
similarity_search(store, q, k) ==
    TakeChunks(SelectSeq(store, LAMBDA r : Similarity(q, r.vector) = 1)
                   \o SelectSeq(store, LAMBDA r : Similarity(q, r.vector) = 0),
               k)

\* any(file_name in file_path for file_path in existing_files)
AnySourceContains(runs, file_name) ==
    \E i \in 1..Len(runs) : Contains(SourceOf(runs[i].file_name), file_name)

\* ChromaVectorStore.document_exists; get_ok: vector_db.get() returned
ChromaDocumentExists(store, file_name, get_ok) ==
    IF ~get_ok THEN FALSE
    ELSE AnySourceContains(store, file_name)

\* InMemoryVectorStoreWrapper.document_exists; q is the embedding of the
\* empty query, embed_ok: the embedding call returned
InMemoryDocumentExists(store, file_name, q, embed_ok) ==
    IF ~embed_ok THEN FALSE
    ELSE LET stored_docs == similarity_search(store, q, ExistsSearchK)
         IN IF stored_docs # <<>> THEN AnySourceContains(stored_docs, file_name)
            ELSE FALSE

\* ChromaVectorStore.document_exists without lines 52 and 62-64: a failure
\* of vector_db.get() reaches the caller
ChromaDocumentExistsRaises_NoTry(get_ok) == ~get_ok

\* lines 52, 62-64: every exception of the body is caught
ChromaDocumentExistsRaises(get_ok) == FALSE

\* lines 108, 116-118: every exception of the body is caught
InMemoryDocumentExistsRaises(embed_ok) == FALSE

\* ChromaVectorStore.add_documents, lines 43-45: ValueError on an empty batch
ChromaAddRaises(n) == n = 0

\* InMemoryVectorStoreWrapper.add_documents, lines 99-103: no check of its
\* own; it raises only when the call into the library does (lib_ok false)
InMemoryAddRaises(n, lib_ok) == ~lib_ok

\* ChromaVectorStore.reset, lines 75-85: the collection is deleted and opened
\* again under the same name; when the deletion fails the exception is
\* dropped and the collection that is opened again is the one left in place
ChromaReset(store, delete_ok) == IF delete_ok THEN <<>> ELSE store

\* lines 75-80: an exception of delete_collection is caught
ChromaResetRaises(delete_ok) == FALSE

\* InMemoryVectorStoreWrapper (lines 90-124) defines no reset: the call
\* raises AttributeError and the store is left as it is
InMemoryResetRaises == TRUE

\* DEFAULT_RETRIEVAL_K, the k the applications create their retriever with
DEFAULT_RETRIEVAL_K == 5

\* The k a retriever is created with.
RetrievalKs == {1, DEFAULT_RETRIEVAL_K}

\* The runs of a store, each with its position in the store.
Positioned(store) ==
    [i \in 1..Len(store) |->
        [file_name |-> store[i].file_name, n |-> store[i].n,
         vector |-> store[i].vector, pos |-> i]]

\* create_retriever that drops its argument and keeps the default k
CreateRetriever_DefaultK(k) == [k |-> DEFAULT_RETRIEVAL_K]

\* create_retriever(k): vector_db.as_retriever(search_kwargs={"k": k})
CreateRetriever(k) == [k |-> k]

\* retriever.invoke(query): the similarity search of the store with the
\* retriever's k; q is the embedding of the query
RetrieverInvoke(store, retriever, q) ==
    similarity_search(Positioned(store), q, retriever.k)

NoRetrieved == [k |-> 0, q |-> "none", chroma |-> <<>>, inmemory |-> <<>>]

NoProbe == [file_name |-> <<>>, chroma |-> FALSE, inmemory |-> FALSE, failed |-> FALSE,
            get_ok |-> TRUE, embed_ok |-> TRUE]

\* One call on both stores: its name, whether it raised on each store, and
\* the contents of each store when it was made.
StoreCall(name, chroma_raised, inmemory_raised) ==
    [name |-> name, chroma_raised |-> chroma_raised, inmemory_raised |-> inmemory_raised,
     chroma_before |-> chroma, inmemory_before |-> inmemory]

StoreInit ==
    /\ chroma = <<>>
    /\ inmemory = <<>>
    /\ adds = 0
    /\ probe = NoProbe
    /\ retrieved = NoRetrieved
    /\ last_op = [name |-> "none", chroma_raised |-> FALSE, inmemory_raised |-> FALSE,
                  chroma_before |-> <<>>, inmemory_before |-> <<>>]

\* add_documents with the chunks of one file, on both stores
AddDocuments(file_name, n, v) ==
    /\ adds < MaxAdds
    /\ adds' = adds + 1
    /\ chroma' = Append(chroma, Run(file_name, n, v))
    /\ inmemory' = Append(inmemory, Run(file_name, n, v))
    /\ probe' = NoProbe
    /\ retrieved' = NoRetrieved
    /\ last_op' = StoreCall("add_documents", ChromaAddRaises(n), InMemoryAddRaises(n, TRUE))
    /\ UNCHANGED <<pipelineVars, appVars, docVars, chatVars, raceVars>>

\* add_documents([]) on both stores; lib_ok: the library call made by the
\* in-memory wrapper returns
AddNoDocuments(lib_ok) ==
    /\ adds < MaxAdds
    /\ adds' = adds + 1
    /\ chroma' = chroma
    /\ inmemory' = inmemory
    /\ probe' = NoProbe
    /\ retrieved' = NoRetrieved
    /\ last_op' = StoreCall("add_no_documents", ChromaAddRaises(0),
                            InMemoryAddRaises(0, lib_ok))
    /\ UNCHANGED <<pipelineVars, appVars, docVars, chatVars, raceVars>>

\* reset() on both stores; delete_ok: delete_collection returned
Reset(delete_ok) ==
    /\ chroma' = ChromaReset(chroma, delete_ok)
    /\ inmemory' = inmemory
    /\ probe' = NoProbe
    /\ retrieved' = NoRetrieved
    /\ last_op' = StoreCall("reset", ChromaResetRaises(delete_ok), InMemoryResetRaises)
    /\ UNCHANGED adds
    /\ UNCHANGED <<pipelineVars, appVars, docVars, chatVars, raceVars>>

\* document_exists(file_name) on both stores
DocumentExists(file_name, q, get_ok, embed_ok) ==
    /\ probe' = [file_name |-> file_name,
                 chroma |-> ChromaDocumentExists(chroma, file_name, get_ok),
                 inmemory |-> InMemoryDocumentExists(inmemory, file_name, q, embed_ok),
                 failed |-> ~get_ok \/ ~embed_ok,
                 get_ok |-> get_ok, embed_ok |-> embed_ok]
    /\ last_op' = StoreCall("document_exists", ChromaDocumentExistsRaises(get_ok),
                            InMemoryDocumentExistsRaises(embed_ok))
    /\ retrieved' = NoRetrieved
    /\ UNCHANGED <<chroma, inmemory, adds>>
    /\ UNCHANGED <<pipelineVars, appVars, docVars, chatVars, raceVars>>

\* create_retriever(k) and retriever.invoke(query) on both stores
Retrieve(q, k) ==
    /\ retrieved' = [k |-> k, q |-> q,
                     chroma |-> RetrieverInvoke(chroma, CreateRetriever(k), q),
                     inmemory |-> RetrieverInvoke(inmemory, CreateRetriever(k), q)]
    /\ probe' = NoProbe
    /\ last_op' = StoreCall("retrieve", FALSE, FALSE)
    /\ UNCHANGED <<chroma, inmemory, adds>>
    /\ UNCHANGED <<pipelineVars, appVars, docVars, chatVars, raceVars>>

NextStore ==
    \/ \E file_name \in FileNames, n \in BatchSizes, v \in Vectors :
           AddDocuments(file_name, n, v)
    \/ \E lib_ok \in BOOLEAN : AddNoDocuments(lib_ok)
    \/ \E file_name \in FileNames, q \in Vectors, get_ok \in BOOLEAN, embed_ok \in BOOLEAN :
           DocumentExists(file_name, q, get_ok, embed_ok)
    \/ \E q \in Vectors, k \in RetrievalKs : Retrieve(q, k)

\* The stores with reset: adds, resets and document_exists calls.
NextReset ==
    \/ \E file_name \in FileNames, n \in BatchSizes, v \in Vectors :
           AddDocuments(file_name, n, v)
    \/ \E delete_ok \in BOOLEAN : Reset(delete_ok)
    \/ \E file_name \in FileNames, q \in Vectors, get_ok \in BOOLEAN, embed_ok \in BOOLEAN :
           DocumentExists(file_name, q, get_ok, embed_ok)

----------------------------------------------------------------------------
(* The upload flows of the three applications *)

\* Pages the loader returns for an uploaded file, and chunks the splitter
\* yields for a non-empty page list.
PageCounts == {0, 1}

ChunkCounts == {0} \cup BatchSizes

\* load_pdf_documents, lines 78-80: ValueError when the loader returns nothing
LoadRaises(pages) == pages = 0

\* chunk_documents without lines 128-130 (an empty split result is returned)
ChunkRaises_NoEmptyResultCheck(pages, n) == pages = 0

\* chunk_documents, lines 116-118 and 128-130: ValueError on an empty page
\* list and on an empty split result
ChunkRaises(pages, n) == pages = 0 \/ n = 0

\* vector_db.add_documents(chunks) on an in-memory store: the n chunks of one
\* file become one run; an empty list adds nothing
AddRun(store, file_name, n, v) ==
    IF n = 0 THEN store ELSE Append(store, Run(file_name, n, v))

NoUpload == [app |-> "none", file_name |-> <<>>, skipped |-> FALSE, pages |-> 0, n |-> 0,
             error |-> "none", add_called |-> FALSE, before |-> <<>>,
             files_before |-> <<>>]

\* One run of an upload flow: the file, whether it was taken for a
\* duplicate, which step raised, whether add_documents was called, and the
\* application's store and processed_files when the run began.
UploadRun(app, file_name, skipped, pages, n, error, add_called, before) ==
    [app |-> app, file_name |-> file_name, skipped |-> skipped, pages |-> pages, n |-> n,
     error |-> error, add_called |-> add_called, before |-> before,
     files_before |-> processed_files]

AppInit ==
    /\ inmemory_app_store = <<>>
    /\ deepseek_store = <<>>
    /\ cloud_store = <<>>
    /\ processed_files = <<>>
    /\ uploads = 0
    /\ upload = NoUpload

\* app_inmemory.py lines 86-94: document_exists, then load, chunk, add
UploadInMemory(file_name, pages, n, v, q, embed_ok) ==
    LET exists == InMemoryDocumentExists(inmemory_app_store, file_name, q, embed_ok)
        error == IF exists THEN "none"
                 ELSE IF LoadRaises(pages) THEN "load"
                 ELSE IF ChunkRaises(pages, n) THEN "chunk"
                 ELSE "none"
        add_called == ~exists /\ error = "none"
    IN /\ uploads < MaxUploads
       /\ uploads' = uploads + 1
       /\ inmemory_app_store' = IF add_called
                                 THEN AddRun(inmemory_app_store, file_name, n, v)
                                 ELSE inmemory_app_store
       /\ upload' = UploadRun("inmemory", file_name, exists, pages, n, error, add_called,
                              inmemory_app_store)
       /\ UNCHANGED <<deepseek_store, cloud_store, processed_files>>
       /\ UNCHANGED <<pipelineVars, storeVars, docVars, chatVars, raceVars>>

\* app_deepseek.py lines 164-172: load, chunk, add, with no duplicate check
UploadDeepseek(file_name, pages, n, v) ==
    LET error == IF LoadRaises(pages) THEN "load"
                 ELSE IF ChunkRaises(pages, n) THEN "chunk"
                 ELSE "none"
        add_called == error = "none"
    IN /\ uploads < MaxUploads
       /\ uploads' = uploads + 1
       /\ deepseek_store' = IF add_called THEN AddRun(deepseek_store, file_name, n, v)
                             ELSE deepseek_store
       /\ upload' = UploadRun("deepseek", file_name, FALSE, pages, n, error, add_called,
                              deepseek_store)
       /\ UNCHANGED <<inmemory_app_store, cloud_store, processed_files>>
       /\ UNCHANGED <<pipelineVars, storeVars, docVars, chatVars, raceVars>>

\* streamlit_cloud.py lines 80-82: file_name in st.session_state.processed_files
document_already_exists(file_name) ==
    \E i \in 1..Len(processed_files) : processed_files[i] = file_name

\* streamlit_cloud.py lines 103-133: processed_files check, then load (the
\* loader's result is not checked), chunk, add, append to processed_files;
\* an exception of these steps is caught, shown and stops the run
UploadCloud(file_name, pages, n, v) ==
    LET exists == document_already_exists(file_name)
        error == IF exists THEN "none"
                 ELSE IF ChunkRaises(pages, n) THEN "chunk"
                 ELSE "none"
        add_called == ~exists /\ error = "none"
    IN /\ uploads < MaxUploads
       /\ uploads' = uploads + 1
       /\ cloud_store' = IF add_called THEN AddRun(cloud_store, file_name, n, v)
                          ELSE cloud_store
       /\ processed_files' = IF add_called THEN Append(processed_files, file_name)
                              ELSE processed_files
       /\ upload' = UploadRun("cloud", file_name, exists, pages, n, error, add_called,
                              cloud_store)
       /\ UNCHANGED <<inmemory_app_store, deepseek_store>>
       /\ UNCHANGED <<pipelineVars, storeVars, docVars, chatVars, raceVars>>

NextApp ==
    \/ \E file_name \in FileNames, pages \in PageCounts, n \in ChunkCounts, v \in Vectors :
           UploadDeepseek(file_name, pages, n, v)
    \/ \E file_name \in FileNames, pages \in PageCounts, n \in ChunkCounts, v \in Vectors,
          q \in Vectors, embed_ok \in BOOLEAN :
           UploadInMemory(file_name, pages, n, v, q, embed_ok)
    \/ \E file_name \in FileNames, pages \in PageCounts, n \in ChunkCounts, v \in Vectors :
           UploadCloud(file_name, pages, n, v)

----------------------------------------------------------------------------
(* Chunking (core/document_processor.py, both versions of chunk_documents) *)

\* The pages load_pdf_documents returns for a file of p pages (lines 89-92):
\* the loader's 0-based page becomes the 1-based page_number.
LoadedPages(file_name, p) ==
    [i \in 1..p |-> [page_content |-> <<"x">>,
                     metadata |-> [source |-> PDF_STORAGE_PATH \o file_name,
                                   filename |-> file_name,
                                   page_number |-> (i - 1) + 1]]]

\* text_processor.split_documents: every page is cut into split[i] chunks,
\* in page order, each chunk carrying a copy of its page's metadata.
RECURSIVE SplitDocuments(_, _)
SplitDocuments(raw_documents, split) ==
    IF raw_documents = <<>> THEN <<>>
    ELSE [j \in 1..split[1] |-> raw_documents[1]]
         \o SplitDocuments(Tail(raw_documents), Tail(split))

\* lines 135-137: chunk.metadata["chunk_index"] = i,
\* chunk.metadata["total_chunks"] = len(chunks)
Annotate(chunks) ==
    [i \in 1..Len(chunks) |->
        [chunks[i] EXCEPT !.metadata =
            [key \in DOMAIN chunks[i].metadata \cup {"chunk_index", "total_chunks"} |->
                IF key = "chunk_index" THEN i - 1
                ELSE IF key = "total_chunks" THEN Len(chunks)
                ELSE chunks[i].metadata[key]]]]

\* chunk_documents of src/src/core/document_processor.py, lines 98-140
chunk_documents(raw_documents, split) ==
    IF raw_documents = <<>> THEN [raised |-> TRUE, chunks |-> <<>>]
    ELSE LET chunks == SplitDocuments(raw_documents, split)
         IN IF chunks = <<>> THEN [raised |-> TRUE, chunks |-> <<>>]
            ELSE [raised |-> FALSE, chunks |-> Annotate(chunks)]

\* chunk_documents of src/core/document_processor.py, lines 45-74: the split
\* result is returned as it is
chunk_documents_core(raw_documents, split) ==
    IF raw_documents = <<>> THEN [raised |-> TRUE, chunks |-> <<>>]
    ELSE LET chunks == SplitDocuments(raw_documents, split)
         IN IF chunks = <<>> THEN [raised |-> TRUE, chunks |-> <<>>]
            ELSE [raised |-> FALSE, chunks |-> chunks]

NoChunked == [module |-> "none", raised |-> FALSE, chunks |-> <<>>]

\* One chunk_documents call of src/src/core/document_processor.py
ChunkDocuments(raw_documents, split) ==
    /\ chunked' = [module |-> "src/src/core",
                   raised |-> chunk_documents(raw_documents, split).raised,
                   chunks |-> chunk_documents(raw_documents, split).chunks]
    /\ UNCHANGED cited
    /\ UNCHANGED <<pipelineVars, storeVars, appVars, chatVars, raceVars>>

\* One chunk_documents call of src/core/document_processor.py
ChunkDocumentsCore(raw_documents, split) ==
    /\ chunked' = [module |-> "src/core",
                   raised |-> chunk_documents_core(raw_documents, split).raised,
                   chunks |-> chunk_documents_core(raw_documents, split).chunks]
    /\ UNCHANGED cited
    /\ UNCHANGED <<pipelineVars, storeVars, appVars, chatVars, raceVars>>

\* One chunking of the pages of one file.
NextChunk ==
    \/ chunked.module = "none" /\
           \E p \in 0..MaxPages : \E split \in [1..p -> 0..MaxChunksPerPage] :
               ChunkDocuments(LoadedPages(<<"a", ".pdf">>, p), split)
    \/ chunked.module = "none" /\
           \E p \in 0..MaxPages : \E split \in [1..p -> 0..MaxChunksPerPage] :
               ChunkDocumentsCore(LoadedPages(<<"a", ".pdf">>, p), split)

----------------------------------------------------------------------------
(* Citation aggregation: get_unique_sources, format_sources_for_display *)

NotAvailable == <<"N/A">>

Unknown == <<"Unknown">>

\* source["metadata"].get("filename", "Unknown")
FilenameOf(source) ==
    IF "filename" \in DOMAIN source.metadata THEN source.metadata.filename ELSE Unknown

\* source["metadata"].get("page_number"); 0 stands for None, and like None
\* it is false in "if page:"
PageOf(source) ==
    IF "page_number" \in DOMAIN source.metadata THEN source.metadata.page_number ELSE 0

\* lines 223 with the count set instead of incremented
CountChunk_OncePerFile(entry) == [entry EXCEPT !.chunks = 1]

\* line 223: source_files[filename]["chunks"] += 1
CountChunk(entry) == [entry EXCEPT !.chunks = @ + 1]

\* lines 210-223: the loop over the sources; source_files is the dict, kept
\* as the sequence of its values in insertion order
RECURSIVE CollectSources(_, _)
CollectSources(srcs, source_files) ==
    IF srcs = <<>> THEN source_files
    ELSE LET filename == FilenameOf(Head(srcs))
             page == PageOf(Head(srcs))
             known == \E k \in 1..Len(source_files) : source_files[k].filename = filename
             with_key == IF known THEN source_files
                         ELSE Append(source_files,
                                     [filename |-> filename, pages |-> {}, chunks |-> 0])
             updated == [k \in 1..Len(with_key) |->
                            IF with_key[k].filename # filename THEN with_key[k]
                            ELSE CountChunk([with_key[k] EXCEPT !.pages =
                                     IF page # 0 THEN @ \cup {page} ELSE @])]
         IN CollectSources(Tail(srcs), updated)

\* sorted(data["pages"])
RECURSIVE Sorted(_)
Sorted(S) ==
    IF S = {} THEN <<>>
    ELSE LET least == CHOOSE x \in S : \A y \in S : x <= y
         IN <<least>> \o Sorted(S \ {least})

Min(pages) == CHOOSE x \in {pages[i] : i \in 1..Len(pages)} :
                  \A i \in 1..Len(pages) : x <= pages[i]

Max(pages) == CHOOSE x \in {pages[i] : i \in 1..Len(pages)} :
                  \A i \in 1..Len(pages) : x >= pages[i]

\* line 233 with "N/A" also for a file seen on one page only
PageRange_NoSinglePage(pages) ==
    IF Len(pages) > 1 THEN <<"Pages ", NumStr(Min(pages)), "-", NumStr(Max(pages))>>
    ELSE NotAvailable

\* line 233: f"Pages {min(pages)}-{max(pages)}" if pages else "N/A"
PageRange(pages) ==
    IF pages # <<>> THEN <<"Pages ", NumStr(Min(pages)), "-", NumStr(Max(pages))>>
    ELSE NotAvailable

\* get_unique_sources, lines 198-236
get_unique_sources(srcs) ==
    LET source_files == CollectSources(srcs, <<>>)
    IN [k \in 1..Len(source_files) |->
           LET pages == IF source_files[k].pages # {} THEN Sorted(source_files[k].pages)
                        ELSE <<>>
           IN [filename |-> source_files[k].filename,
               pages |-> pages,
               chunk_count |-> source_files[k].chunks,
               page_range |-> PageRange(pages)]]

\* format_sources_for_display, rag_chain.py lines 185-211
format_sources_for_display(srcs) ==
    IF srcs = <<>> THEN <<>>
    ELSE LET unique_sources == get_unique_sources(srcs)
         IN [k \in 1..Len(unique_sources) |->
                [filename |-> unique_sources[k].filename,
                 pages |-> unique_sources[k].pages,
                 page_range |-> unique_sources[k].page_range,
                 chunks_used |-> unique_sources[k].chunk_count]]

\* Chunks a retriever can return: of two files, from pages 1..MaxPages, or
\* without the enriched metadata.
RetrievableChunks ==
    {MakeChunk(f, page, <<"x">>, 0, 1) :
        f \in {<<"a", ".pdf">>, <<"b", ".pdf">>}, page \in 0..(MaxPages - 1)}
    \cup {BareChunk}

RECURSIVE ChunkListsOfLen(_)
ChunkListsOfLen(n) ==
    IF n = 0 THEN {<<>>}
    ELSE {Append(ds, d) : ds \in ChunkListsOfLen(n - 1), d \in RetrievableChunks}

\* The source lists format_docs_with_metadata builds from them.
SourceLists ==
    UNION {{format_docs_with_metadata(ds).sources : ds \in ChunkListsOfLen(n)} :
              n \in 0..MaxSources}

NoCited == [fn |-> "none", srcs |-> <<>>, unique |-> <<>>, formatted |-> <<>>]

\* One call of get_unique_sources
GetUniqueSources(srcs) ==
    /\ cited' = [fn |-> "get_unique_sources", srcs |-> srcs,
                 unique |-> get_unique_sources(srcs), formatted |-> <<>>]
    /\ UNCHANGED chunked
    /\ UNCHANGED <<pipelineVars, storeVars, appVars, chatVars, raceVars>>

\* One call of format_sources_for_display
FormatSourcesForDisplay(srcs) ==
    /\ cited' = [fn |-> "format_sources_for_display", srcs |-> srcs,
                 unique |-> get_unique_sources(srcs),
                 formatted |-> format_sources_for_display(srcs)]
    /\ UNCHANGED chunked
    /\ UNCHANGED <<pipelineVars, storeVars, appVars, chatVars, raceVars>>

\* One aggregation of one source list.
NextCite ==
    \/ cited.fn = "none" /\ \E srcs \in SourceLists : GetUniqueSources(srcs)
    \/ cited.fn = "none" /\ \E srcs \in SourceLists : FormatSourcesForDisplay(srcs)

----------------------------------------------------------------------------
(* The chat handlers of the three applications *)

\* Answers and citation lists generate_enhanced_answer returns to a chat
\* handler: a plain answer or the error answer, with or without citations.
ChatAnswers == {<<"x">>, ErrorAnswer("model error")}

ChatSources ==
    {format_docs_with_metadata(ds).sources :
        ds \in {<<>>, <<MakeChunk(<<"a", ".pdf">>, 0, <<"x">>, 0, 2)>>}}

\* The (answer, sources) pairs the return statements produce.
ReturnedPairs == {Return(a, srcs, "document") : a \in ChatAnswers, srcs \in ChatSources}

\* Python values stored as the content of a chat entry: a str, or the
\* 2-tuple generate_enhanced_answer returns.
PyStr(text) == [type |-> "str", value |-> text]

PyTuple(returned) == [type |-> "tuple", answer |-> returned.answer,
                      sources |-> returned.sources]

\* chat_history.append({"role": "user", "content": user_input})
UserEntry(user_input) == [role |-> "user", content |-> PyStr(user_input)]

\* One processed query: what was entered and what the pipeline returned.
Asked(user_input, returned) == [input |-> user_input, returned |-> returned]

\* app_inmemory.py lines 128-157: the pair is unpacked, the answer is stored
\* with the formatted sources
QueryInMemory(user_input, returned) ==
    /\ Len(asked.inmemory) < MaxQueries
    /\ asked' = [asked EXCEPT !.inmemory = Append(@, Asked(user_input, returned))]
    /\ inmemory_chat' =
           inmemory_chat \o
               <<UserEntry(user_input),
                 [role |-> "assistant", content |-> PyStr(returned.answer),
                  sources |-> format_sources_for_display(returned.sources)]>>
    /\ UNCHANGED <<deepseek_chat, cloud_chat>>
    /\ UNCHANGED <<pipelineVars, storeVars, appVars, docVars, raceVars>>

\* app_deepseek.py lines 195-228: the same
QueryDeepseek(user_input, returned) ==
    /\ Len(asked.deepseek) < MaxQueries
    /\ asked' = [asked EXCEPT !.deepseek = Append(@, Asked(user_input, returned))]
    /\ deepseek_chat' =
           deepseek_chat \o
               <<UserEntry(user_input),
                 [role |-> "assistant", content |-> PyStr(returned.answer),
                  sources |-> format_sources_for_display(returned.sources)]>>
    /\ UNCHANGED <<inmemory_chat, cloud_chat>>
    /\ UNCHANGED <<pipelineVars, storeVars, appVars, docVars, raceVars>>

\* streamlit_cloud.py lines 154-176: ai_response is what
\* generate_enhanced_answer returned, and it is stored as the content
QueryCloud(user_input, returned) ==
    /\ Len(asked.cloud) < MaxQueries
    /\ asked' = [asked EXCEPT !.cloud = Append(@, Asked(user_input, returned))]
    /\ cloud_chat' =
           cloud_chat \o
               <<UserEntry(user_input),
                 [role |-> "assistant", content |-> PyTuple(returned)]>>
    /\ UNCHANGED <<inmemory_chat, deepseek_chat>>
    /\ UNCHANGED <<pipelineVars, storeVars, appVars, docVars, raceVars>>

NextChat ==
    \/ \E user_input \in Queries, returned \in ReturnedPairs :
           QueryCloud(user_input, returned)
    \/ \E user_input \in Queries, returned \in ReturnedPairs :
           QueryInMemory(user_input, returned)
    \/ \E user_input \in Queries, returned \in ReturnedPairs :
           QueryDeepseek(user_input, returned)

----------------------------------------------------------------------------
(* Two runs of the upload flow of app_inmemory.py against one store *)

\* The two ingestion requests that run against one store.
IngestRequests == {1, 2}

NoIngest == [pc |-> "upload", file_name |-> <<>>, exists |-> FALSE]

\* app_inmemory.py line 89: vector_store.document_exists(uploaded_pdf.name);
\* the request goes on to load, chunk and add when the answer is False
IngestCheck(r, file_name, q) ==
    /\ ingest[r].pc = "upload"
    /\ LET exists == InMemoryDocumentExists(shared_store, file_name, q, TRUE)
       IN ingest' = [ingest EXCEPT ![r] = [pc |-> IF exists THEN "done" ELSE "checked",
                                           file_name |-> file_name,
                                           exists |-> exists]]
    /\ UNCHANGED shared_store
    /\ UNCHANGED <<pipelineVars, storeVars, appVars, docVars, chatVars>>

\* app_inmemory.py lines 90-92: load, chunk, vector_store.add_documents; the
\* store is not looked at again
IngestAdd(r, n, v) ==
    /\ ingest[r].pc = "checked"
    /\ shared_store' = Append(shared_store, Run(ingest[r].file_name, n, v))
    /\ ingest' = [ingest EXCEPT ![r].pc = "done"]
    /\ UNCHANGED <<pipelineVars, storeVars, appVars, docVars, chatVars>>

NextRace ==
    \/ \E r \in IngestRequests, file_name \in FileNames, q \in Vectors :
           IngestCheck(r, file_name, q)
    \/ \E r \in IngestRequests, n \in BatchSizes, v \in Vectors : IngestAdd(r, n, v)

----------------------------------------------------------------------------
(* Specifications: one query through the pipeline; one run of the stores *)

DocInit ==
    /\ chunked = NoChunked
    /\ cited = NoCited

ChatInit ==
    /\ inmemory_chat = <<>>
    /\ deepseek_chat = <<>>
    /\ cloud_chat = <<>>
    /\ asked = [inmemory |-> <<>>, deepseek |-> <<>>, cloud |-> <<>>]

RaceInit ==
    /\ shared_store = <<>>
    /\ ingest = [r \in IngestRequests |-> NoIngest]

Init == PipelineInit /\ StoreInit /\ AppInit /\ DocInit /\ ChatInit /\ RaceInit

Spec == Init /\ [][Next]_vars

\* The retriever and the language model always respond; the external
\* search responds or not.
SpecLive ==
    /\ Init
    /\ [][NextLive]_vars
    /\ WF_vars(RetrieverResponds)
    /\ WF_vars(ModelResponds)

SpecStore == Init /\ [][NextStore]_vars

SpecReset == Init /\ [][NextReset]_vars

SpecApp == Init /\ [][NextApp]_vars

SpecChunk == Init /\ [][NextChunk]_vars

SpecCite == Init /\ [][NextCite]_vars

SpecChat == Init /\ [][NextChat]_vars

SpecRace == Init /\ [][NextRace]_vars

----------------------------------------------------------------------------
(* Properties of the answering pipeline *)

Returned == pc = "done"

\* The three returns of the Finalize state: lines 178, 154 and 163.
Finalized == Returned /\ result.via \in {"document", "enhanced", "fallback"}

IsError(answer) == answer # <<>> /\ answer[1] = ErrorPrefix

RetrievalFailed == Len(calls) >= 1 /\ ~calls[1].ok

FirstPassReturned == Len(calls) >= 2 /\ calls[2].ok

FirstPassFailed == Len(calls) >= 2 /\ ~calls[2].ok

LookupInvoked == \E i \in 1..Len(calls) : calls[i].fn = "lookup"

LookupFailed == \E i \in 1..Len(calls) : calls[i].fn = "lookup" /\ ~calls[i].ok

SecondPassFailed == Len(calls) = 4 /\ ~calls[4].ok

EscalationFailed == LookupFailed \/ SecondPassFailed

EscalationCondition ==
    /\ external_search_enabled
    /\ Contains(initial_response, Sentinel)
    /\ external_search_available

\* No line has leading or trailing whitespace and there is no blank line.
IsNormalized(s) ==
    \/ s = <<>>
    \/ /\ s[1] \notin Whitespace
       /\ s[Len(s)] \notin Whitespace
       /\ \A i \in 1..(Len(s) - 1) :
             /\ ~(s[i] = "\n" /\ s[i + 1] \in Whitespace)
             /\ ~(s[i] \in Whitespace /\ s[i + 1] = "\n")

\* What is left of the first-pass answer once the sentinel occurrences found
\* in one pass are removed and the surrounding whitespace is stripped.
FirstPassRemainder == Strip(Remove(initial_response, Sentinel))

\* C1: on every finalizing path (escalation disabled; enabled and no
\* sentinel; escalated; sentinel emitted and search unavailable or failed)
\* the returned answer does not contain the sentinel.
C1_NoSentinelInAnswer ==
    Finalized => ~Contains(result.answer, Sentinel)

\* C2: an answer returned on a finalizing path is never the empty string.
C2_AnswerNeverEmpty ==
    Finalized => result.answer # <<>>

\* C3: no exception reaches the caller.  As soon as any of the four external
\* calls has failed the function has returned a pair, and when the retrieval
\* or the first model call failed the answer is an error description.
C3_NoExceptionReachesCaller ==
    /\ ~result.raised
    /\ Returned => result.via # "none"
    /\ (\E i \in 1..Len(calls) : ~calls[i].ok) => Returned
    /\ (RetrievalFailed \/ FirstPassFailed) => IsError(result.answer)

\* C3 witness: the first model call failed after chunks were retrieved.
C3_Witness ==
    Returned /\ FirstPassFailed /\ result.sources # <<>>

\* C4: the external search is invoked exactly when escalation is enabled, the
\* first-pass answer contains the sentinel and the search is available;
\* otherwise the query finalizes from the first-pass answer, with one model
\* call and no search.
C4_LookupIffEscalation ==
    /\ LookupInvoked => FirstPassReturned /\ EscalationCondition
    /\ (Returned /\ FirstPassReturned /\ EscalationCondition) => LookupInvoked
    /\ (Returned /\ FirstPassReturned /\ ~EscalationCondition) =>
           /\ ~LookupInvoked
           /\ Len(calls) = 2
           /\ result.via = "document"

\* C4 witness: a query that escalated and called the search.
C4_Witness ==
    Returned /\ LookupInvoked /\ EscalationCondition

\* C5 as stated: after a failed escalation the returned answer is the
\* first-pass answer with the sentinel removed, the citations come with it
\* and a warning is shown.
C5_FallbackIsFirstPassAnswer ==
    (Returned /\ EscalationFailed) =>
        /\ ~result.raised
        /\ ~IsError(result.answer)
        /\ result.answer \in {Remove(initial_response, Sentinel), FirstPassRemainder}
        /\ result.sources = sources
        /\ ui # <<>> /\ ui[Len(ui)] = "error"

\* C5 amended: after a failed escalation the returned answer is the
\* first-pass answer with the sentinel removed and the surrounding whitespace
\* stripped, or the fixed "insufficient information" string when nothing is
\* left; it is no error string, the citations come with it and a warning is
\* shown.
C5_FallbackOrInsufficient ==
    (Returned /\ EscalationFailed) =>
        /\ ~result.raised
        /\ ~IsError(result.answer)
        /\ result.answer = IF FirstPassRemainder # <<>> THEN FirstPassRemainder
                           ELSE InsufficientInfo
        /\ result.sources = sources
        /\ ui # <<>> /\ ui[Len(ui)] = "error"

\* C5 witness: the second model call failed, the answer falls back to the
\* text of the first pass and the citations are kept.
C5_Witness ==
    /\ Returned /\ SecondPassFailed
    /\ result.sources # <<>>
    /\ result.answer = <<"x">>

\* C6: every answer returned on a finalizing path is whitespace-normalized.
C6_AnswerNormalized ==
    Finalized => IsNormalized(result.answer)

\* C7: when the retriever fails, neither the model nor the external search is
\* invoked and the result is an error string with no citations.
C7_RetrieverFailureGoesToFailed ==
    RetrievalFailed =>
        /\ Returned
        /\ Len(calls) = 1
        /\ result.via = "failed"
        /\ IsError(result.answer)
        /\ result.sources = <<>>

\* C7 witness: a query whose retrieval failed.
C7_Witness ==
    Returned /\ RetrievalFailed

\* The case of C8: no chunk retrieved, escalation enabled, search
\* unavailable, the first-pass answer contains the sentinel.
ZeroChunkCase ==
    /\ Returned /\ FirstPassReturned
    /\ docs = <<>>
    /\ external_search_enabled /\ ~external_search_available
    /\ Contains(initial_response, Sentinel)

\* C8 as stated: in the zero-chunk case the answer is the fixed
\* "insufficient information" string.
C8_ZeroChunksGiveFallbackString ==
    ZeroChunkCase => result.answer = InsufficientInfo

\* C8 amended: in the zero-chunk case the query finalizes with a non-empty
\* answer that is no error: the fixed "insufficient information" string when
\* the first-pass answer holds nothing but sentinel and whitespace, otherwise
\* the rest of the first-pass answer, normalized.
C8_ZeroChunksNeverEmptyNorError ==
    ZeroChunkCase =>
        /\ ~result.raised
        /\ result.via = "document"
        /\ ~IsError(result.answer)
        /\ result.answer # <<>>
        /\ NormalizeLines(FirstPassRemainder) = <<>> => result.answer = InsufficientInfo
        /\ NormalizeLines(FirstPassRemainder) # <<>> =>
               result.answer = NormalizeLines(FirstPassRemainder)

\* C8 witness: the first-pass answer is just the sentinel.
C8_Witness ==
    ZeroChunkCase /\ initial_response = Sentinel /\ result.answer = InsufficientInfo

\* C20: when no external search provider is configured (no TAVILY_API_KEY),
\* the search is unavailable: the query finalizes with the first-pass answer,
\* without invoking the search and without a second model call.
C20_NoProviderMeansUnavailable ==
    (Returned /\ FirstPassReturned /\ ~tavily_api_key) =>
        /\ ~LookupInvoked
        /\ Len(calls) = 2
        /\ result.via = "document"

\* C21: on every path the citation list returned with the answer is the
\* per-chunk list built from the retrieved chunks, in retrieval order, and
\* empty when the retrieval failed; a first-model failure, an escalation and
\* an escalation failure leave it as it was built.
C21_CitationsAreTheFormattedChunks ==
    Returned =>
        /\ RetrievalFailed => result.sources = <<>>
        /\ Len(result.sources) = Len(docs)
        /\ \A i \in 1..Len(docs) :
               /\ result.sources[i].chunk_number = i
               /\ result.sources[i].content = docs[i].page_content
               /\ result.sources[i].metadata = docs[i].metadata

\* C21 witness: an escalation failed after two chunks were retrieved.
C21_Witness ==
    Returned /\ EscalationFailed /\ Len(docs) = 2 /\ Len(result.sources) = 2

CallOrder == <<"retrieve", "model", "lookup", "model">>

\* C25: the calls of one query happen in the order retrieve, first model
\* call, external search, second model call (so the model is invoked at most
\* twice and the search at most once); the search receives the user's query;
\* the second model call comes only after the search returned and is given
\* the document context and the external results.
C25_CallOrderAndInputs ==
    /\ Len(calls) <= Len(CallOrder)
    /\ \A i \in 1..Len(calls) : calls[i].fn = CallOrder[i]
    /\ \A i \in 1..Len(calls) :
           calls[i].fn = "lookup" => calls[i].input.user_query = user_query
    /\ Len(calls) = 4 =>
           /\ calls[3].ok
           /\ calls[4].input.user_query = user_query
           /\ calls[4].input.document_context = document_context
           /\ calls[4].input.external_context = external_results

\* C25 witness: a query that made all four calls, with a non-empty context.
C25_Witness ==
    /\ Returned /\ Len(calls) = 4 /\ calls[4].ok
    /\ document_context # <<>>
    /\ external_results # <<>>

\* Positions of the chunk headers in a context string, in increasing order.
HeaderPositions(context) ==
    Sorted({j \in 1..Len(context) : context[j] = "--- Source "})

ContextFormatted == Len(calls) >= 1 /\ calls[1].ok

\* C26: format_docs_with_metadata succeeds on every retrieval: one citation
\* record per chunk, in retrieval order, numbered 1..n, with the chunk's
\* content and metadata; the chunks rendered into the context in that order;
\* the retrieved chunks unmodified; the empty context and the empty list for
\* an empty retrieval.
C26_FormatDocsWithMetadata ==
    ContextFormatted =>
        LET at == HeaderPositions(document_context)
            n == Len(docs)
        IN /\ Len(sources) = n
           /\ \A i \in 1..n :
                  /\ sources[i].chunk_number = i
                  /\ sources[i].content = docs[i].page_content
                  /\ sources[i].metadata = docs[i].metadata
           /\ docs \in RetrievedDocs
           /\ Len(at) = n
           /\ \A i \in 1..n :
                  LET last == IF i < n THEN at[i + 1] - 3 ELSE Len(document_context)
                      content == docs[i].page_content
                  IN /\ document_context[at[i] + 1] = NumStr(i)
                     /\ SubSeq(document_context, last - Len(content) + 1, last) = content
           /\ n = 0 => document_context = <<>> /\ sources = <<>>

\* C26 witness: two chunks of two files were formatted.
C26_Witness ==
    /\ ContextFormatted
    /\ Len(docs) = 2
    /\ docs[1].metadata.filename # docs[2].metadata.filename
    /\ Len(sources) = 2

\* C28: the cleanup applied to a first-pass answer (sentinel removed, then
\* whitespace normalized) is idempotent: applied again to the answer it
\* returned it changes nothing, and that answer holds no sentinel.
C28_CleanupIsIdempotent ==
    /\ (Returned /\ result.via = "document" /\ external_search_enabled) =>
           /\ CleanDocumentBased(TRUE, result.answer) = result.answer
           /\ ~Contains(result.answer, Sentinel)
    /\ (Returned /\ result.via = "fallback") =>
           /\ CleanFallback(result.answer) = result.answer
           /\ ~Contains(result.answer, Sentinel)

----------------------------------------------------------------------------
(* Properties of document_exists *)

Probed == probe.file_name # <<>>

FilenameIndexed(store, file_name) ==
    \E i \in 1..Len(store) : store[i].file_name = file_name

\* C9, first half: document_exists(f) is false on both stores as long as no
\* chunk whose filename equals f has been added.
C9_FalseBeforeAdd ==
    (Probed /\ ~FilenameIndexed(chroma, probe.file_name)) =>
        ~probe.chroma /\ ~probe.inmemory

\* C9, second half: without internal failure document_exists(f) is true on
\* both stores immediately after an add of chunks whose filename equals f.
C9_TrueAfterAdd ==
    (Probed /\ ~probe.failed /\ chroma # <<>>
        /\ chroma[Len(chroma)].file_name = probe.file_name) =>
        probe.chroma /\ probe.inmemory

\* C10: without internal failure document_exists(f) is true exactly when an
\* indexed chunk's source path contains f, and the two stores agree after the
\* same adds, whatever the number of indexed chunks.
C10_SubstringMatchOnBothStores ==
    (Probed /\ ~probe.failed) =>
        /\ probe.chroma = AnySourceContains(chroma, probe.file_name)
        /\ probe.inmemory = AnySourceContains(inmemory, probe.file_name)
        /\ probe.inmemory = probe.chroma

\* C11: document_exists never raises on either store; when the backing
\* store's get() or the embedding call of the similarity search fails it
\* returns false; and it leaves the contents of both stores unchanged.
C11_DocumentExistsNeverRaises ==
    last_op.name = "document_exists" =>
        /\ ~last_op.chroma_raised
        /\ ~last_op.inmemory_raised
        /\ ~probe.get_ok => ~probe.chroma
        /\ ~probe.embed_ok => ~probe.inmemory
        /\ chroma = last_op.chroma_before
        /\ inmemory = last_op.inmemory_before

\* C11 witness: both backing calls failed for a filename that is indexed in
\* both stores.
C11_Witness ==
    /\ last_op.name = "document_exists"
    /\ ~probe.get_ok /\ ~probe.embed_ok
    /\ FilenameIndexed(chroma, probe.file_name)
    /\ FilenameIndexed(inmemory, probe.file_name)
    /\ ~probe.chroma /\ ~probe.inmemory

\* Number of chunks a sequence of runs stands for.
RECURSIVE ChunkTotal(_)
ChunkTotal(runs) == IF runs = <<>> THEN 0 ELSE Head(runs).n + ChunkTotal(Tail(runs))

\* What a retrieval with parameter k may return from a store: at most k
\* chunks, each of them a chunk of the store and none of them twice, and
\* the whole store when k is at least the number of chunks in it.
RetrievalWithin(found, store, k) ==
    /\ ChunkTotal(found) <= k
    /\ \A i \in 1..Len(found) :
           /\ found[i].pos \in 1..Len(store)
           /\ found[i].file_name = store[found[i].pos].file_name
           /\ found[i].vector = store[found[i].pos].vector
           /\ found[i].n \in 1..store[found[i].pos].n
    /\ \A i, j \in 1..Len(found) : found[i].pos = found[j].pos => i = j
    /\ k >= ChunkTotal(store) =>
           \A p \in 1..Len(store) :
               \E i \in 1..Len(found) : found[i].pos = p /\ found[i].n = store[p].n

\* C22: a retrieval with parameter k returns at most k chunks, only chunks
\* that are indexed, and every indexed chunk exactly once when k is at
\* least the number of indexed chunks.
C22_RetrievalReturnsAtMostK ==
    retrieved.k > 0 =>
        /\ RetrievalWithin(retrieved.chroma, chroma, retrieved.k)
        /\ RetrievalWithin(retrieved.inmemory, inmemory, retrieved.k)

\* A retrieval with k = 1 from a store of two chunks, one of them returned.
C22_Witness ==
    /\ retrieved.k = 1
    /\ ChunkTotal(inmemory) = 2
    /\ ChunkTotal(retrieved.inmemory) = 1
    /\ ChunkTotal(retrieved.chroma) = 1

\* A retrieval with k = 5 from a store of two chunks, both returned.
C22_WitnessAll ==
    /\ retrieved.k = DEFAULT_RETRIEVAL_K
    /\ ChunkTotal(inmemory) = 2
    /\ ChunkTotal(retrieved.inmemory) = 2

\* C27: when the retriever and the language model always respond, every
\* query is answered in the end, whether the external search responds or
\* not.
C27_EveryQueryIsAnswered == (pc = "retrieve") ~> (pc = "done")

\* A chat history that holds one user entry and one assistant entry per
\* processed query, in order, the assistant's content being the answer string.
ChatFollows(history, queries) ==
    /\ Len(history) = 2 * Len(queries)
    /\ \A i \in 1..Len(queries) :
           /\ history[2 * i - 1].role = "user"
           /\ history[2 * i - 1].content = PyStr(queries[i].input)
           /\ history[2 * i].role = "assistant"
           /\ history[2 * i].content = PyStr(queries[i].returned.answer)

\* C29: in every application the chat history alternates user and assistant
\* entries, one pair per processed query, and the content of an assistant
\* entry is the answer string, never the (answer, citations) pair.
C29_ChatHistoryHoldsAnswerStrings ==
    /\ ChatFollows(inmemory_chat, asked.inmemory)
    /\ ChatFollows(deepseek_chat, asked.deepseek)
    /\ ChatFollows(cloud_chat, asked.cloud)

\* C12: add_documents called with an empty chunk sequence fails with an
\* error on the Chroma store and on the in-memory store alike, and indexes
\* nothing.
C12_EmptyBatchFailsOnBothStores ==
    last_op.name = "add_no_documents" =>
        /\ last_op.chroma_raised
        /\ last_op.inmemory_raised
        /\ chroma = last_op.chroma_before
        /\ inmemory = last_op.inmemory_before

\* C15: reset is available on both stores (it does not raise), leaves both
\* empty, so that document_exists is false for every filename, and a second
\* reset leaves the same state, also when the collection cannot be deleted.
C15_ResetEmptiesBothStores ==
    last_op.name = "reset" =>
        /\ ~last_op.chroma_raised
        /\ ~last_op.inmemory_raised
        /\ chroma = <<>>
        /\ inmemory = <<>>
        /\ \A f \in FileNames : ~AnySourceContains(chroma, f)
        /\ \A f \in FileNames : ~AnySourceContains(inmemory, f)

----------------------------------------------------------------------------
(* Properties of the upload flows *)

\* The runs of a store that hold chunks of one filename.
RunsOf(store, file_name) == {i \in 1..Len(store) : store[i].file_name = file_name}

IndexedAtMostOnce(store) ==
    \A f \in FileNames : Cardinality(RunsOf(store, f)) <= 1

\* The store of the application the last upload went to.
UploadStore ==
    IF upload.app = "inmemory" THEN inmemory_app_store
    ELSE IF upload.app = "deepseek" THEN deepseek_store
    ELSE cloud_store

\* C13: in every application, after any sequence of uploads, the chunks of a
\* given filename are indexed at most once.
C13_FilenameIndexedAtMostOnce ==
    /\ IndexedAtMostOnce(inmemory_app_store)
    /\ IndexedAtMostOnce(deepseek_store)
    /\ IndexedAtMostOnce(cloud_store)

\* The case of C16: an upload that was processed and whose loader returned
\* no page or whose split returned no chunk.
IngestionFailed ==
    /\ upload.app # "none"
    /\ ~upload.skipped
    /\ upload.pages = 0 \/ upload.n = 0

\* C16: when ingesting a file fails, an error is raised before add_documents
\* is called, no chunk of the file is indexed and what was indexed before is
\* unchanged.
C16_FailedIngestionIndexesNothing ==
    IngestionFailed =>
        /\ upload.error # "none"
        /\ ~upload.add_called
        /\ UploadStore = upload.before
        /\ processed_files = upload.files_before

\* C16 witness: the split of a second file yields no chunk while the chunks
\* of a first file are indexed.
C16_Witness ==
    /\ IngestionFailed
    /\ upload.pages = 1
    /\ upload.error = "chunk"
    /\ upload.before # <<>>
    /\ upload.before[1].file_name # upload.file_name

----------------------------------------------------------------------------
(* Properties of chunking and of citation aggregation *)

\* C17: every chunk returned by one chunk_documents call carries chunk_index
\* and total_chunks, total_chunks is the number of chunks returned and the
\* chunk_index values are 0, 1, ..., total_chunks - 1 in output order.
C17_ChunkIndexIsSequential ==
    (chunked.module # "none" /\ ~chunked.raised) =>
        \A i \in 1..Len(chunked.chunks) :
            /\ "chunk_index" \in DOMAIN chunked.chunks[i].metadata
            /\ "total_chunks" \in DOMAIN chunked.chunks[i].metadata
            /\ chunked.chunks[i].metadata.chunk_index = i - 1
            /\ chunked.chunks[i].metadata.total_chunks = Len(chunked.chunks)

\* The input records of the last aggregation that belong to one filename.
RecordsOf(file_name) ==
    {i \in 1..Len(cited.srcs) : FilenameOf(cited.srcs[i]) = file_name}

\* The page numbers recorded for one filename in the input.
PagesOf(file_name) ==
    {PageOf(cited.srcs[i]) : i \in {j \in RecordsOf(file_name) : PageOf(cited.srcs[j]) # 0}}

RECURSIVE SumChunkCount(_)
SumChunkCount(entries) ==
    IF entries = <<>> THEN 0 ELSE Head(entries).chunk_count + SumChunkCount(Tail(entries))

Aggregated == cited.fn # "none"

\* C18: get_unique_sources returns exactly one entry per distinct filename
\* of its input (records without a filename under "Unknown"), each
\* chunk_count is the number of input records of that filename and the
\* chunk_counts sum to the number of input records;
\* format_sources_for_display reports the same counts as chunks_used and
\* returns an empty list for empty input.
C18_OneEntryPerFilename ==
    Aggregated =>
        /\ \A i, j \in 1..Len(cited.unique) :
               cited.unique[i].filename = cited.unique[j].filename => i = j
        /\ {cited.unique[k].filename : k \in 1..Len(cited.unique)}
               = {FilenameOf(cited.srcs[i]) : i \in 1..Len(cited.srcs)}
        /\ \A k \in 1..Len(cited.unique) :
               cited.unique[k].chunk_count = Cardinality(RecordsOf(cited.unique[k].filename))
        /\ SumChunkCount(cited.unique) = Len(cited.srcs)
        /\ cited.fn = "format_sources_for_display" =>
               /\ Len(cited.formatted) = Len(cited.unique)
               /\ \A k \in 1..Len(cited.formatted) :
                      /\ cited.formatted[k].filename = cited.unique[k].filename
                      /\ cited.formatted[k].chunks_used = cited.unique[k].chunk_count
               /\ cited.srcs = <<>> => cited.formatted = <<>>

\* C18 witness: three records of one file, one of another and none without
\* a filename, formatted for display.
C18_Witness ==
    /\ cited.fn = "format_sources_for_display"
    /\ Len(cited.srcs) = 4
    /\ Len(cited.formatted) = 2
    /\ cited.formatted[1].chunks_used = 3
    /\ cited.formatted[2].chunks_used = 1

\* C19: for every file of the aggregated citations, pages is the sorted
\* duplicate-free sequence of the page numbers of its records, and
\* page_range is "Pages {min}-{max}" of them when there is one, "N/A" only
\* when no record of the file carries a page number.
C19_PagesAndPageRange ==
    Aggregated =>
        \A k \in 1..Len(cited.unique) :
            LET e == cited.unique[k]
                recorded == PagesOf(e.filename)
            IN /\ {e.pages[i] : i \in 1..Len(e.pages)} = recorded
               /\ \A i \in 1..(Len(e.pages) - 1) : e.pages[i] < e.pages[i + 1]
               /\ recorded # {} =>
                      \E lo, hi \in recorded :
                          /\ \A x \in recorded : lo <= x /\ x <= hi
                          /\ e.page_range = <<"Pages ", NumStr(lo), "-", NumStr(hi)>>
               /\ recorded = {} <=> e.page_range = NotAvailable

\* C19 witness: one file on pages 1, 2 and 3, another on page 1 only.
C19_Witness ==
    /\ cited.fn = "get_unique_sources"
    /\ Len(cited.unique) = 2
    /\ cited.unique[1].pages = <<1, 2, 3>>
    /\ cited.unique[1].page_range = <<"Pages ", "1", "-", "3">>
    /\ cited.unique[2].pages = <<1>>
    /\ cited.unique[2].page_range = <<"Pages ", "1", "-", "1">>

\* C30: two ingestion requests for the same filename that run against one
\* store leave the file's chunks indexed at most once, however the
\* document_exists check of one and the add_documents call of the other
\* interleave.
C30_SameFileIndexedOnceUnderInterleaving ==
    \A f \in FileNames :
        (ingest[1].file_name = f /\ ingest[2].file_name = f) =>
            Cardinality(RunsOf(shared_store, f)) <= 1

====
